---- MODULE Spec2Model ----
(***************************************************************************)
(* Model of app/intake-flow/agent.py: the two deterministic tool functions *)
(* of the analytics intake system, validate_basic_info and                 *)
(* save_analytics_request (with summarize_analytics_request), together     *)
(* with the parts of their environment they read and write: the wall       *)
(* clock, the text-generation call and the working directory.              *)
(***************************************************************************)
EXTENDS Integers, Sequences, FiniteSets, TLC

VARIABLES
    clock,      \* the wall clock, in ticks (TicksPerSec ticks to the second)
    vargs,      \* the four arguments the driver passes to validate_basic_info
    vcalls,     \* the outcomes of the validate_basic_info calls made so far
    caller_record, \* the caller-owned request record handed to save_analytics_request
    fs,         \* the working directory: file name -> file content
    scalls      \* what each save_analytics_request call did and returned

vars == <<clock, vargs, vcalls, caller_record, fs, scalls>>

(***************************************************************************)
(* Bounds of the model.                                                    *)
(***************************************************************************)
MaxLen == 3        \* longest argument string
MaxClock == 3      \* the clock stops advancing here
MaxTick == 1       \* most ticks that pass between two clock reads
MaxVCalls == 2     \* validate_basic_info calls in one behaviour
MaxSCalls == 2     \* save_analytics_request calls in one behaviour
TicksPerSec == 2   \* sub-second resolution of the clock

(***************************************************************************)
(* Python values the driver can pass as an argument: a str (a sequence of  *)
(* characters), None, or a non-string such as an int.                      *)
(***************************************************************************)
Chars == {" ", "a"}
Whitespace == {" "}

RECURSIVE StringsUpTo(_)
StringsUpTo(n) ==
    IF n = 0 THEN {<<>>}
    ELSE LET shorter == StringsUpTo(n - 1)
         IN  shorter \cup {Append(s, c) : s \in {x \in shorter : Len(x) = n - 1}, c \in Chars}

PyStr(s) == [t |-> "str", s |-> s, n |-> 0]
PyNone == [t |-> "none", s |-> <<>>, n |-> 0]
PyInt(n) == [t |-> "int", s |-> <<>>, n |-> n]

ArgValues == {PyStr(s) : s \in StringsUpTo(MaxLen)} \cup {PyNone, PyInt(0), PyInt(7)}

\* Python truthiness: `not v` is true of "", None and 0.
Falsy(v) ==
    \/ v.t = "none"
    \/ v.t = "str" /\ v.s = <<>>
    \/ v.t = "int" /\ v.n = 0

\* str.strip(): drop leading, then trailing, whitespace.
RECURSIVE LStrip(_)
LStrip(s) == IF s # <<>> /\ Head(s) \in Whitespace THEN LStrip(Tail(s)) ELSE s

RECURSIVE RStrip(_)
RStrip(s) ==
    IF s # <<>> /\ s[Len(s)] \in Whitespace THEN RStrip(SubSeq(s, 1, Len(s) - 1)) ELSE s

Strip(s) == RStrip(LStrip(s))

(***************************************************************************)
(* validate_basic_info                                                     *)
(***************************************************************************)
Fields == <<"name", "role", "department", "timeline">>

FieldSet == {Fields[k] : k \in 1..4}

MinLen(f) == IF f = "timeline" THEN 3 ELSE 2

ErrorMessage(f) ==
    CASE f = "name" -> "Name must be at least 2 characters long"
      [] f = "role" -> "Role must be specified"
      [] f = "department" -> "Department must be specified"
      [] f = "timeline" -> "Timeline must be specified"

\* One `if not x or len(x.strip()) < m:` test: "err" appends the message,
\* "ok" does not, "raise" is the AttributeError of .strip() on a non-string.
TooShortUntrimmed(s, m) == Len(s) < m

TooShort(s, m) == Len(Strip(s)) < m

FieldCheck(v, m) ==
    IF Falsy(v) THEN "err"
    ELSE IF v.t # "str" THEN "raise"
    ELSE IF TooShort(v.s, m) THEN "err"
    ELSE "ok"

\* (a validator that stops at the first violation)
RECURSIVE ErrorsFirstOnly(_, _)
ErrorsFirstOnly(args, k) ==
    IF k = 0 THEN <<>>
    ELSE LET f == Fields[k]
             before == ErrorsFirstOnly(args, k - 1)
         IN  IF before = <<>> /\ FieldCheck(args[f], MinLen(f)) = "err"
             THEN <<ErrorMessage(f)>>
             ELSE before

\* The errors list after the first k tests (all of them have returned).
RECURSIVE ErrorsUpTo(_, _)
ErrorsUpTo(args, k) ==
    IF k = 0 THEN <<>>
    ELSE LET f == Fields[k]
             before == ErrorsUpTo(args, k - 1)
         IN  IF FieldCheck(args[f], MinLen(f)) = "err"
             THEN Append(before, ErrorMessage(f))
             ELSE before

\* (a timestamp taken once, when the module was loaded)
ValidDataStale(args, now) ==
    [name |-> Strip(args.name.s),
     role |-> Strip(args.role.s),
     department |-> Strip(args.department.s),
     timeline |-> Strip(args.timeline.s),
     collected_at |-> 0]

ValidData(args, now) ==
    [name |-> Strip(args.name.s),
     role |-> Strip(args.role.s),
     department |-> Strip(args.department.s),
     timeline |-> Strip(args.timeline.s),
     collected_at |-> now]

\* The outcome of one call: what it returned, or that it raised.
validate_basic_info(args, now) ==
    IF \E k \in 1..4 : FieldCheck(args[Fields[k]], MinLen(Fields[k])) = "raise"
    THEN [outcome |-> "raise", exc |-> "AttributeError", result |-> [none |-> TRUE]]
    ELSE IF ErrorsUpTo(args, 4) # <<>>
    THEN [outcome |-> "return", exc |-> "",
          result |-> [valid |-> FALSE, errors |-> ErrorsUpTo(args, 4)]]
    ELSE [outcome |-> "return", exc |-> "",
          result |-> [valid |-> TRUE, data |-> ValidData(args, now)]]

(***************************************************************************)
(* Python values of a request record: a str, a dict (its items in          *)
(* insertion order), a value json cannot serialize (a set), and None.      *)
(***************************************************************************)
Text(s) == [t |-> "str", s |-> s]
Dict(items) == [t |-> "dict", items |-> items]
Unserializable == [t |-> "set"]
NoneValue == [t |-> "none"]

Item(k, v) == [k |-> k, v |-> v]

Keys(d) == {d.items[i].k : i \in 1..Len(d.items)}

\* d.get(k, default)
DictGet(d, k, default) ==
    IF k \in Keys(d)
    THEN d.items[CHOOSE i \in 1..Len(d.items) : d.items[i].k = k].v
    ELSE default

\* d[k] = v: an existing key keeps its place, a new key goes last.
DictSet(d, k, v) ==
    IF k \in Keys(d)
    THEN Dict([i \in 1..Len(d.items) |->
                  IF d.items[i].k = k THEN Item(k, v) ELSE d.items[i]])
    ELSE Dict(Append(d.items, Item(k, v)))

\* datetime.isoformat() and strftime("%Y%m%d_%H%M%S") of a clock value.
IsoFormat(now) == "iso:" \o ToString(now)

Seconds(now) == now \div TicksPerSec

\* (a file name that keeps the sub-second part of the time)
FileNameUntruncated(now) == "analytics_request_" \o ToString(now) \o "f.json"

FileName(now) == "analytics_request_" \o ToString(Seconds(now)) \o ".json"

(***************************************************************************)
(* json.dump and json.load.  A file holds the items written so far; it is  *)
(* a complete document only once the last item and the closing brace are   *)
(* written.                                                                *)
(***************************************************************************)
RECURSIVE Serializable(_)
Serializable(v) ==
    CASE v.t = "str" -> TRUE
      [] v.t = "none" -> TRUE
      [] v.t = "dict" -> \A i \in 1..Len(v.items) : Serializable(v.items[i].v)
      [] OTHER -> FALSE

RECURSIVE JsonEncode(_)
JsonEncode(v) ==
    CASE v.t = "str" -> [j |-> "string", s |-> v.s]
      [] v.t = "none" -> [j |-> "null"]
      [] v.t = "dict" ->
            [j |-> "object",
             members |-> [i \in 1..Len(v.items) |->
                             Item(v.items[i].k, JsonEncode(v.items[i].v))]]

RECURSIVE JsonDecode(_)
JsonDecode(j) ==
    CASE j.j = "string" -> Text(j.s)
      [] j.j = "null" -> NoneValue
      [] j.j = "object" ->
            Dict([i \in 1..Len(j.members) |->
                     Item(j.members[i].k, JsonDecode(j.members[i].v))])

\* How many leading items of d json.dump writes before it meets a value it
\* cannot serialize (all of them when there is none).
RECURSIVE WritableItems(_, _)
WritableItems(d, k) ==
    IF k < Len(d.items) /\ Serializable(d.items[k + 1].v)
    THEN WritableItems(d, k + 1)
    ELSE k

EncodedItems(d, n) == [i \in 1..n |-> Item(d.items[i].k, JsonEncode(d.items[i].v))]

NoFile == [exists |-> FALSE, members |-> <<>>, complete |-> FALSE]

\* open(filename, 'w') has created or truncated the file and n items of d are
\* written; the document is complete when `whole`.
FileAfterWrite(d, n, whole) == [exists |-> TRUE, members |-> EncodedItems(d, n), complete |-> whole]

\* json.load of a file: the record, or no record when the file is missing or
\* is not a complete document.
JsonLoad(file) ==
    IF file.exists /\ file.complete
    THEN [ok |-> TRUE, value |-> JsonDecode([j |-> "object", members |-> file.members])]
    ELSE [ok |-> FALSE, value |-> NoneValue]

(***************************************************************************)
(* summarize_analytics_request: the prompt holds str(request_data); the    *)
(* text-generation call returns a text or raises.                          *)
(***************************************************************************)
PromptFor(request_data) == [template |-> "summary of this analytics request", data |-> request_data]

LlmOutcomes == {[ok |-> TRUE, text |-> "generated summary"],
                [ok |-> FALSE, text |-> "service unavailable"]}

\* (a summarizer that returns the failure as a plain message)
summarize_as_text(request_data, llm) ==
    IF llm.ok THEN Text(llm.text) ELSE Text("Failed to generate summary: " \o llm.text)

summarize_analytics_request(request_data, llm) ==
    IF llm.ok
    THEN Text(llm.text)
    ELSE Dict(<<Item("status", Text("error")),
                Item("message", Text("Failed to generate summary: " \o llm.text))>>)

(***************************************************************************)
(* save_analytics_request                                                  *)
(***************************************************************************)
NoException == [type |-> "", msg |-> ""]

ItemAssignmentError ==
    [type |-> "TypeError", msg |-> "'NoneType' object does not support item assignment"]
OpenError == [type |-> "PermissionError", msg |-> "[Errno 13] Permission denied"]
WriteError == [type |-> "OSError", msg |-> "[Errno 28] No space left on device"]
NotSerializableError == [type |-> "TypeError", msg |-> "Object of type set is not JSON serializable"]
NoGetError == [type |-> "AttributeError", msg |-> "'str' object has no attribute 'get'"]

Metadata(now) ==
    Dict(<<Item("created_at", Text(IsoFormat(now))), Item("status", Text("pending_review"))>>)

\* The record after lines 118 and 121-124; request_data["..."] = ... raises
\* on anything but a dict, and then nothing is assigned.
WithSummaryAndMetadata(request_data, summary, now) ==
    IF request_data.t = "dict"
    THEN DictSet(DictSet(request_data, "request_summary", summary), "metadata", Metadata(now))
    ELSE request_data

\* The `summary` of the returned mapping (lines 134-135).
ShortSummary(record) ==
    "Request type: " \o DictGet(record, "request_type", Text("unknown")).s
    \o ", Requester: "
    \o DictGet(DictGet(record, "basic_info", Dict(<<>>)), "name", Text("unknown")).s

SuccessResult(record, filename) ==
    [status |-> "success",
     message |-> "Analytics request saved successfully to " \o filename,
     file_path |-> filename,
     summary |-> ShortSummary(record)]

\* (a handler for OSError only: anything else propagates)
ErrorResultOSErrorOnly(exc) ==
    IF exc.type \in {"OSError", "PermissionError"}
    THEN [outcome |-> "return",
          result |-> [status |-> "error", message |-> "Failed to save request: " \o exc.msg]]
    ELSE [outcome |-> "raise", result |-> [status |-> "none", message |-> exc.msg]]

\* except Exception as e: (lines 137-141)
ErrorResult(exc) ==
    [outcome |-> "return",
     result |-> [status |-> "error", message |-> "Failed to save request: " \o exc.msg]]

\* The number of items json.dump has to write for a record: its own keys and
\* the two that lines 118 and 121 assign.
ItemsToWrite(request_data) ==
    IF request_data.t = "dict"
    THEN Cardinality(Keys(request_data) \cup {"request_summary", "metadata"})
    ELSE 0

\* What the environment does to the write: nothing, open() fails, or the
\* device fails after `at` of the n items.
IoOutcomes(n) ==
    {[fault |-> "none", at |-> 0], [fault |-> "open", at |-> 0]}
    \cup {[fault |-> "write", at |-> k] : k \in 0..(n - 1)}

\* One call.  now1 is the clock read of line 112, now2 that of line 122.
\* The value is the call's record: its argument before and after, the file
\* before and after, the exception the try block caught and what the call
\* returned.
save_analytics_request(request_data, files, now1, now2, llm, io) ==
    LET filename == FileName(now1)
        summary == summarize_analytics_request(request_data, llm)
        record == WithSummaryAndMetadata(request_data, summary, now2)
        isDict == request_data.t = "dict"
        writable == IF isDict THEN WritableItems(record, 0) ELSE 0
        opened == isDict /\ io.fault # "open"
        deviceFails == opened /\ io.fault = "write" /\ io.at < writable
        written == IF deviceFails THEN io.at ELSE writable
        whole == opened /\ ~deviceFails /\ written = Len(record.items)
        basicInfo == IF isDict THEN DictGet(record, "basic_info", Dict(<<>>)) ELSE Dict(<<>>)
        exc == IF ~isDict THEN ItemAssignmentError
               ELSE IF ~opened THEN OpenError
               ELSE IF deviceFails THEN WriteError
               ELSE IF ~whole THEN NotSerializableError
               ELSE IF basicInfo.t # "dict" THEN NoGetError
               ELSE NoException
    IN  [arg |-> request_data,
         prompt |-> PromptFor(request_data),
         llm |-> llm,
         io |-> io,
         t_name |-> now1,
         t_meta |-> now2,
         file |-> filename,
         before |-> files[filename],
         after |-> IF opened THEN FileAfterWrite(record, written, whole) ELSE files[filename],
         record |-> record,
         exc |-> exc,
         ret |-> IF exc = NoException
                 THEN [outcome |-> "return", result |-> SuccessResult(record, filename)]
                 ELSE ErrorResult(exc)]

(***************************************************************************)
(* The persister's driver: it owns one request record, calls               *)
(* save_analytics_request with it, and may build the record of another     *)
(* conversation once the current one has been saved.                       *)
(***************************************************************************)
RecTypical ==
    Dict(<<Item("basic_info", Dict(<<Item("name", Text("Ann"))>>)),
           Item("request_type", Text("reports"))>>)

RecMinimal == Dict(<<Item("requirements", Text("weekly revenue"))>>)

RecBasicInfoText ==
    Dict(<<Item("basic_info", Text("Ann, analyst")), Item("request_type", Text("dashboard"))>>)

RecUnserializable ==
    Dict(<<Item("request_type", Text("updates")), Item("requirements", Unserializable),
           Item("basic_info", Dict(<<Item("name", Text("Bo"))>>))>>)

RecOwnMetadata ==
    Dict(<<Item("request_type", Text("reports")),
           Item("request_summary", Text("draft summary")),
           Item("metadata", Dict(<<Item("session_id", Text("session_abc123"))>>))>>)

InputRecords ==
    {RecTypical, RecMinimal, RecBasicInfoText, RecUnserializable, RecOwnMetadata, NoneValue}

\* (the file name stamped last, after the summarization and the metadata)
ClockReadsNameLast(entry, took) == [name |-> entry + took, meta |-> entry]

\* The two clock reads of one call.  The call is entered at `entry`; the
\* clock is read for the file name first (line 112), then the summarization
\* runs and takes `took`, and then the clock is read for created_at (line 122).
ClockReads(entry, took) == [name |-> entry, meta |-> entry + took]

FileNames == {FileName(t) : t \in 0..MaxClock}

Init ==
    /\ clock = 0
    /\ vargs = [f \in FieldSet |-> PyStr(<<>>)]
    /\ vcalls = <<>>
    /\ caller_record \in InputRecords
    /\ fs = [n \in FileNames |-> NoFile]
    /\ scalls = <<>>

Save ==
    /\ Len(scalls) < MaxSCalls
    /\ \E d0 \in 0..MaxTick, d1 \in 0..MaxTick, llm \in LlmOutcomes :
         /\ clock + d0 + d1 <= MaxClock
         /\ \E io \in IoOutcomes(ItemsToWrite(caller_record)) :
              LET reads == ClockReads(clock + d0, d1)
                  call == save_analytics_request(caller_record, fs, reads.name,
                                                  reads.meta, llm, io)
              IN  /\ clock' = clock + d0 + d1
                  /\ caller_record' = call.record
                  /\ fs' = [fs EXCEPT ![call.file] = call.after]
                  /\ scalls' = Append(scalls, call)
    /\ UNCHANGED <<vargs, vcalls>>

NewRequest ==
    /\ 0 < Len(scalls)
    /\ Len(scalls) < MaxSCalls
    /\ \E r \in InputRecords :
         /\ r # caller_record
         /\ caller_record' = r
    /\ UNCHANGED <<clock, vargs, vcalls, fs, scalls>>

Next == Save \/ NewRequest

Spec == Init /\ [][Next]_vars

(***************************************************************************)
(* The validator's driver: it holds four arguments and calls               *)
(* validate_basic_info with them, again and again (agent.py only reads the *)
(* clock at line 185, so time passes between and during the calls).        *)
(***************************************************************************)
\* The arguments of one behaviour: any two of the four range over every value,
\* the other two over an empty string and a string that passes every test.
Filled == [i \in 1..MaxLen |-> "a"]

DefaultValues == {PyStr(<<>>), PyStr(Filled)}

ArgsVarying(w) ==
    [name : IF "name" \in w THEN ArgValues ELSE DefaultValues,
     role : IF "role" \in w THEN ArgValues ELSE DefaultValues,
     department : IF "department" \in w THEN ArgValues ELSE DefaultValues,
     timeline : IF "timeline" \in w THEN ArgValues ELSE DefaultValues]

ArgTuples == UNION {ArgsVarying(w) : w \in {x \in SUBSET FieldSet : Cardinality(x) = 2}}

InitV ==
    /\ clock = 0
    /\ vargs \in ArgTuples
    /\ vcalls = <<>>
    /\ caller_record = NoneValue
    /\ fs = [n \in FileNames |-> NoFile]
    /\ scalls = <<>>

Validate ==
    /\ Len(vcalls) < MaxVCalls
    /\ \E d \in 0..MaxTick :
         /\ clock + d <= MaxClock
         /\ clock' = clock + d
         /\ vcalls' = Append(vcalls, [t0 |-> clock, t1 |-> clock + d,
                                      ret |-> validate_basic_info(vargs, clock + d)])
    /\ UNCHANGED <<vargs, caller_record, fs, scalls>>

NextV == Validate

SpecV == InitV /\ [][NextV]_vars

(***************************************************************************)
(* Properties of validate_basic_info.                                      *)
(***************************************************************************)
\* The minimum lengths the specification gives.
ClaimMin == [name |-> 2, role |-> 2, department |-> 2, timeline |-> 3]

NonSpace(s) == {i \in 1..Len(s) : s[i] \notin Whitespace}

SetMin(S) == CHOOSE x \in S : \A y \in S : x <= y
SetMax(S) == CHOOSE x \in S : \A y \in S : x >= y

\* The string without its surrounding whitespace, by position.
Trimmed(s) ==
    IF NonSpace(s) = {} THEN <<>> ELSE SubSeq(s, SetMin(NonSpace(s)), SetMax(NonSpace(s)))

AllStrings(args) == \A f \in FieldSet : args[f].t = "str"

StrOrNone(args) == \A f \in FieldSet : args[f].t \in {"str", "none"}

LongEnough(v, f) == v.t = "str" /\ Len(Trimmed(v.s)) >= ClaimMin[f]

\* C1: on string arguments validate_basic_info returns valid = true if and
\* only if every field, trimmed, has at least its minimum length (name 2,
\* role 2, department 2, timeline 3); an empty or whitespace-only field
\* makes the result valid = false.
C1_ValidIffEveryFieldLongEnough ==
    \A i \in 1..Len(vcalls) :
        AllStrings(vargs) =>
            /\ vcalls[i].ret.outcome = "return"
            /\ vcalls[i].ret.result.valid = (\A f \in FieldSet : LongEnough(vargs[f], f))
            /\ (\E f \in FieldSet : NonSpace(vargs[f].s) = {}) => ~vcalls[i].ret.result.valid

\* A name exactly at its minimum once trimmed (" aa") has passed.
C1_Witness ==
    /\ Len(vcalls) > 0
    /\ vargs.name = PyStr(<<" ", "a", "a">>)
    /\ vcalls[1].ret.outcome = "return"
    /\ vcalls[1].ret.result.valid

ExpectedError(args, f) == IF LongEnough(args[f], f) THEN <<>> ELSE <<ErrorMessage(f)>>

\* C2: a valid = false result lists exactly one message per violating field,
\* none for a passing field, in the order name, role, department, timeline.
C2_AllViolationsInFieldOrder ==
    \A i \in 1..Len(vcalls) :
        (StrOrNone(vargs) /\ \E f \in FieldSet : ~LongEnough(vargs[f], f)) =>
            /\ vcalls[i].ret.outcome = "return"
            /\ ~vcalls[i].ret.result.valid
            /\ vcalls[i].ret.result.errors =
                   ExpectedError(vargs, "name") \o ExpectedError(vargs, "role")
                   \o ExpectedError(vargs, "department") \o ExpectedError(vargs, "timeline")

\* Four empty strings have given four messages.
C2_Witness ==
    /\ Len(vcalls) > 0
    /\ \A f \in FieldSet : vargs[f] = PyStr(<<>>)
    /\ vcalls[1].ret.outcome = "return"
    /\ Len(vcalls[1].ret.result.errors) = 4

\* C3: validate_basic_info raises for no input; every malformed argument
\* gives a result with valid = false and an errors list.
C3_NeverRaises ==
    \A i \in 1..Len(vcalls) :
        /\ vcalls[i].ret.outcome = "return"
        /\ (\E f \in FieldSet : ~LongEnough(vargs[f], f)) =>
               (~vcalls[i].ret.result.valid /\ "errors" \in DOMAIN vcalls[i].ret.result)

\* C10: on valid = true, data holds exactly name, role, department, timeline
\* and collected_at; each string is the trimmed input, non-empty and at
\* least its minimum length; collected_at is a clock value of that call;
\* two calls with the same input agree except for collected_at, which does
\* not decrease.
C10_ValidDataTrimmedAndStamped ==
    \A i \in 1..Len(vcalls) :
        (vcalls[i].ret.outcome = "return" /\ vcalls[i].ret.result.valid) =>
            LET data == vcalls[i].ret.result.data
            IN  /\ DOMAIN vcalls[i].ret.result = {"valid", "data"}
                /\ DOMAIN data = FieldSet \cup {"collected_at"}
                /\ \A f \in FieldSet :
                       /\ vargs[f].t = "str"
                       /\ data[f] = Trimmed(vargs[f].s)
                       /\ data[f] # <<>>
                       /\ Len(data[f]) >= ClaimMin[f]
                /\ vcalls[i].t0 <= data.collected_at
                /\ data.collected_at <= vcalls[i].t1
                /\ \A j \in 1..Len(vcalls) :
                       i < j =>
                           /\ vcalls[j].ret.outcome = "return"
                           /\ vcalls[j].ret.result.valid
                           /\ \A f \in FieldSet : vcalls[j].ret.result.data[f] = data[f]
                           /\ data.collected_at <= vcalls[j].ret.result.data.collected_at

\* Two calls on padded input, the second at a later clock value.
C10_Witness ==
    /\ Len(vcalls) >= 2
    /\ vargs.role = PyStr(<<" ", "a", "a">>)
    /\ vcalls[1].ret.outcome = "return"
    /\ vcalls[1].ret.result.valid
    /\ vcalls[2].ret.result.valid
    /\ vcalls[2].t0 > 0
    /\ vcalls[1].ret.result.data.collected_at < vcalls[2].ret.result.data.collected_at

(***************************************************************************)
(* Properties of save_analytics_request.                                   *)
(***************************************************************************)
SaveCalls == 1..Len(scalls)

\* The keys of a record and the value under a key; none for what is no mapping.
KeysOf(v) == IF v.t = "dict" THEN Keys(v) ELSE {}

Field(v, k) == IF k \in KeysOf(v) THEN DictGet(v, k, NoneValue) ELSE NoneValue

Returned(c, status) == c.ret.outcome = "return" /\ c.ret.result.status = status

SummaryFailure(c) ==
    Dict(<<Item("status", Text("error")),
           Item("message", Text("Failed to generate summary: " \o c.llm.text))>>)

MetadataAttached(c) ==
    /\ "metadata" \in KeysOf(c.record)
    /\ Field(c.record, "metadata").t = "dict"
    /\ KeysOf(Field(c.record, "metadata")) = {"created_at", "status"}
    /\ Field(Field(c.record, "metadata"), "status") = Text("pending_review")

\* The file of the call holds the complete document of the call's record.
FileHoldsRecord(c) == JsonLoad(c.after) = [ok |-> TRUE, value |-> c.record]

\* Nothing but the summarization fails: the record is a mapping of values
\* json can write, with basic_info (if any) a mapping, and the file system
\* accepts the write.
RECURSIVE NoSetIn(_)
NoSetIn(v) ==
    /\ v.t # "set"
    /\ v.t = "dict" => \A i \in 1..Len(v.items) : NoSetIn(v.items[i].v)

RestSucceeds(c) ==
    /\ c.arg.t = "dict"
    /\ NoSetIn(c.arg)
    /\ "basic_info" \in KeysOf(c.arg) => Field(c.arg, "basic_info").t = "dict"
    /\ c.io.fault = "none"

Causes == {ItemAssignmentError, OpenError, WriteError, NotSerializableError, NoGetError}

C6_NoPartialFile ==
    \A i \in SaveCalls :
        \/ scalls[i].after = scalls[i].before
        \/ FileHoldsRecord(scalls[i])

\* C7: when a call returns success, the file read back as JSON has every key
\* of the input with the value supplied, plus request_summary,
\* metadata.created_at and metadata.status = "pending_review".
C7_RoundTrip ==
    \A i \in SaveCalls :
        Returned(scalls[i], "success") =>
            LET doc == JsonLoad(scalls[i].after)
            IN  /\ doc.ok
                /\ \A k \in KeysOf(scalls[i].arg) :
                       /\ k \in KeysOf(doc.value)
                       /\ Field(doc.value, k) = Field(scalls[i].arg, k)
                /\ "request_summary" \in KeysOf(doc.value)
                /\ "created_at" \in KeysOf(Field(doc.value, "metadata"))
                /\ Field(Field(doc.value, "metadata"), "status")
                       = Text("pending_review")

SameSecond(c1, c2) == Seconds(c1.t_name) = Seconds(c2.t_name)

C9_NoStateLeftBehind ==
    \A i \in SaveCalls :
        /\ scalls[i].record = scalls[i].arg
        /\ \A j \in SaveCalls :
               (j = i + 1 /\ scalls[j].arg = scalls[i].record) =>
                   scalls[j].prompt = scalls[i].prompt

\* C11 as stated: the clock value used for the file name is read after the
\* summarization has returned, so it is not earlier than the time stamped
\* into metadata.created_at.
C11_AsStated ==
    \A i \in SaveCalls :
        scalls[i].arg.t = "dict" => scalls[i].t_name >= scalls[i].t_meta

\* C11: the clock is read for the file name first, before the summarization
\* call, and for created_at after it: the file name carries the second of
\* the first read, created_at the instant of the second, and the file-name
\* instant is never later than created_at.  Two calls use the same file name
\* exactly when their file-name reads fall in the same second, whatever the
\* seconds of their created_at.
C11_NameStampedBeforeSummary ==
    \A i \in SaveCalls :
        /\ scalls[i].t_name <= scalls[i].t_meta
        /\ scalls[i].file = FileName(scalls[i].t_name)
        /\ scalls[i].arg.t = "dict" =>
               Field(Field(scalls[i].record, "metadata"), "created_at")
                   = Text(IsoFormat(scalls[i].t_meta))
        /\ \A j \in SaveCalls :
               (scalls[i].file = scalls[j].file)
                   <=> (Seconds(scalls[i].t_name) = Seconds(scalls[j].t_name))
        /\ \A j \in SaveCalls :
               j = i + 1 => scalls[i].t_meta <= scalls[j].t_name

\* A summarized and saved request whose file name carries an earlier second
\* than its created_at, followed by a saved request whose file name falls in
\* the second of the first one's created_at: the two files are different.
C11_Witness ==
    /\ Len(scalls) >= 2
    /\ Returned(scalls[1], "success")
    /\ Returned(scalls[2], "success")
    /\ scalls[1].llm.ok
    /\ Seconds(scalls[1].t_name) < Seconds(scalls[1].t_meta)
    /\ Seconds(scalls[2].t_name) = Seconds(scalls[1].t_meta)
    /\ scalls[1].file # scalls[2].file
    /\ FileHoldsRecord(scalls[1])
    /\ JsonLoad(fs[scalls[1].file]).value = scalls[1].record

\* C12: the returned status agrees with the file system: a call returns
\* "success" (with the file path and the short summary) exactly when its
\* record was fully written to the named file, and a call that returns
\* "error" has neither created nor overwritten a file.  Stated here for the
\* calls in which every value can be serialized and the file system accepts
\* the write, a record whose basic_info is not a mapping included.
C12_StatusAgreesWithFile ==
    \A i \in SaveCalls :
        (NoSetIn(scalls[i].arg) /\ scalls[i].io.fault = "none") =>
            /\ scalls[i].ret.outcome = "return"
            /\ Returned(scalls[i], "success") <=> FileHoldsRecord(scalls[i])
            /\ Returned(scalls[i], "success") =>
                   /\ scalls[i].ret.result.file_path = scalls[i].file
                   /\ scalls[i].ret.result.summary = ShortSummary(scalls[i].record)
            /\ Returned(scalls[i], "error") => scalls[i].after = scalls[i].before

====
